---- MODULE Spec2Model ----
(***************************************************************************)
(* Model of lm_eval/tasks/bel_glue/utils.py (CoNLL chunk scorer) and of    *)
(* lm_eval/filters/transformation.py (response filters).                   *)
(*                                                                         *)
(* A tag is a sequence of tokens: <<"O">>, or <<prefix, "-", type>>.       *)
(* A Python number is an exact rational [num, den] in lowest terms.        *)
(* A call's outcome is a record [state, num, den]: "not_called",           *)
(* "returned" (the number num/den) or "raised" (ZeroDivisionError).        *)
(***************************************************************************)
EXTENDS Integers, Sequences, FiniteSets, TLC

VARIABLES
    golds, preds,   \* the item <<golds, preds>> handed to the scorer entry points
    locals,         \* local variables of the latest _count_chunks activation
    called, ret,    \* the latest scorer entry point called, and its outcome
    ctor_args,      \* the arguments the filter was constructed with
    filter,         \* the fields of the filter instance
    resps,          \* the response batch handed to apply
    out,            \* the outcome of the latest apply
    json_string,    \* the string handed to _parse_json_markdown
    parsed,         \* the outcome of the latest _parse_json_markdown
    seen            \* per operation, the outcome of its latest call (history)

scorer_vars == <<golds, preds, locals, called, ret>>

filter_vars == <<ctor_args, filter, resps, out>>

json_vars == <<json_string, parsed>>

vars == <<golds, preds, locals, called, ret, ctor_args, filter, resps, out,
          json_string, parsed, seen>>

(* ---------------------------------------------------------------------- *)
(* Bounds and input alphabets                                             *)
(* ---------------------------------------------------------------------- *)
MaxLen == 2

None == "None"

OTag == <<"O">>

(* O; PER with B (a prefix that opens a chunk), I, and E (a prefix that
   closes one); and I-LOC, a second type whose tag can follow a PER tag
   without opening by its prefix, so a boundary by type change alone occurs *)
TagList ==
    <<OTag, <<"B", "-", "PER">>, <<"I", "-", "PER">>, <<"E", "-", "PER">>,
      <<"I", "-", "LOC">>>>

TypeList == <<"PER", "LOC">>

Range(s) == {s[i] : i \in DOMAIN s}

Tags == Range(TagList)

Types == Range(TypeList)

TagSeqs(n) == [1..n -> Tags]

(* ---------------------------------------------------------------------- *)
(* Numbers                                                                *)
(* ---------------------------------------------------------------------- *)
RECURSIVE GCD(_, _)
GCD(a, b) == IF b = 0 THEN a ELSE GCD(b, a % b)

Rat(n, d) == LET g == GCD(n, d) IN [num |-> n \div g, den |-> d \div g]

Zero == [num |-> 0, den |-> 1]

RatIsZero(x) == x.num = 0

RatAdd(x, y) == Rat(x.num * y.den + y.num * x.den, x.den * y.den)

RatMul(x, y) == Rat(x.num * y.num, x.den * y.den)

RatDiv(x, y) == Rat(x.num * y.den, x.den * y.num)

(* sum of f[k] over the keys keys[i..] *)
RECURSIVE SumFrom(_, _, _)
SumFrom(f, keys, i) ==
    IF i > Len(keys) THEN 0 ELSE f[keys[i]] + SumFrom(f, keys, i + 1)

(* sum(d.values()) of a counter keyed by keys *)
SumValues(f, keys) == SumFrom(f, keys, 1)

(* sum(v for k, v in d.items() if k != 'O'): OTag is the first key *)
SumNonO(f, keys) == SumFrom([f EXCEPT ![OTag] = 0], keys, 1)

(* ---------------------------------------------------------------------- *)
(* utils.py                                                               *)
(* ---------------------------------------------------------------------- *)
RECURSIVE IndexOf(_, _, _)
IndexOf(s, c, i) ==
    IF i > Len(s) THEN 0 ELSE IF s[i] = c THEN i ELSE IndexOf(s, c, i + 1)

(* _split_tag: 'O' -> ('O', None); otherwise split on the first '-' *)
split_tag(chunk_tag) ==
    IF chunk_tag = OTag THEN <<<<"O">>, None>>
    ELSE LET k == IndexOf(chunk_tag, "-", 1) IN
         <<SubSeq(chunk_tag, 1, k - 1), SubSeq(chunk_tag, k + 1, Len(chunk_tag))>>

PrefixOf(tag) == split_tag(tag)[1]

TypeOf(tag) ==
    LET t == split_tag(tag)[2] IN IF t = None THEN None ELSE t[1]

is_chunk_end(prev_tag, tag) ==
    LET prefix1 == PrefixOf(prev_tag)
        prefix2 == PrefixOf(tag)
        chunk_type1 == TypeOf(prev_tag)
        chunk_type2 == TypeOf(tag)
    IN  IF prefix1 = <<"O">> THEN FALSE
        ELSE IF prefix2 = <<"O">> THEN prefix1 # <<"O">>
        ELSE IF chunk_type1 # chunk_type2 THEN TRUE
        ELSE prefix2 \in {<<"B">>, <<"S">>} \/ prefix1 \in {<<"E">>, <<"S">>}

(* the chunk-start test without the test of the types *)
is_chunk_start_same_type(prev_tag, tag) ==
    LET prefix1 == PrefixOf(prev_tag)
        prefix2 == PrefixOf(tag)
    IN  IF prefix2 = <<"O">> THEN FALSE
        ELSE IF prefix1 = <<"O">> THEN prefix2 # <<"O">>
        ELSE prefix2 \in {<<"B">>, <<"S">>} \/ prefix1 \in {<<"E">>, <<"S">>}

is_chunk_start(prev_tag, tag) ==
    LET prefix1 == PrefixOf(prev_tag)
        prefix2 == PrefixOf(tag)
        chunk_type1 == TypeOf(prev_tag)
        chunk_type2 == TypeOf(tag)
    IN  IF prefix2 = <<"O">> THEN FALSE
        ELSE IF prefix1 = <<"O">> THEN prefix2 # <<"O">>
        ELSE IF chunk_type1 # chunk_type2 THEN TRUE
        ELSE prefix2 \in {<<"B">>, <<"S">>} \/ prefix1 \in {<<"E">>, <<"S">>}

calc_metrics(tp, p, t) ==
    LET precision == IF p # 0 THEN Rat(tp, p) ELSE Zero
        recall == IF t # 0 THEN Rat(tp, t) ELSE Zero
        fb1 == IF ~RatIsZero(RatAdd(precision, recall))
               THEN RatDiv(RatMul(RatMul(Rat(2, 1), precision), recall),
                           RatAdd(precision, recall))
               ELSE Zero
    IN  <<precision, recall, fb1>>

(* six counters, all zero *)
EmptyCounters ==
    [correct_chunks |-> [t \in Types |-> 0],
     true_chunks    |-> [t \in Types |-> 0],
     pred_chunks    |-> [t \in Types |-> 0],
     correct_counts |-> [t \in Tags |-> 0],
     true_counts    |-> [t \in Tags |-> 0],
     pred_counts    |-> [t \in Tags |-> 0]]

NoLocals ==
    [c |-> EmptyCounters, prev_true_tag |-> OTag, prev_pred_tag |-> OTag,
     correct_chunk |-> None]

(* the locals of the previous activation, kept as if they were module-level *)
StaleLocals == locals

(* what a _count_chunks activation starts from: six fresh defaultdict(int),
   prev_true_tag = prev_pred_tag = 'O', correct_chunk = None *)
FreshLocals ==
    [c |-> EmptyCounters, prev_true_tag |-> OTag, prev_pred_tag |-> OTag,
     correct_chunk |-> None]

Bump(f, k) == [f EXCEPT ![k] = @ + 1]

(* after the "if correct_chunk is not None" block of one iteration *)
LoopEnds(st, true_tag, pred_tag) ==
    LET true_type == TypeOf(true_tag)
        pred_type == TypeOf(pred_tag)
        true_end == is_chunk_end(st.prev_true_tag, true_tag)
        pred_end == is_chunk_end(st.prev_pred_tag, pred_tag)
    IN  IF st.correct_chunk = None THEN st
        ELSE IF pred_end /\ true_end
             THEN [st EXCEPT !.c.correct_chunks = Bump(@, st.correct_chunk),
                             !.correct_chunk = None]
        ELSE IF pred_end # true_end \/ true_type # pred_type
             THEN [st EXCEPT !.correct_chunk = None]
        ELSE st

(* the chunk-start half, opening the marker on a gold start alone *)
LoopStartsGoldOnly(st, true_tag, pred_tag) ==
    LET true_type == TypeOf(true_tag)
        pred_type == TypeOf(pred_tag)
        true_start == is_chunk_start(st.prev_true_tag, true_tag)
        pred_start == is_chunk_start(st.prev_pred_tag, pred_tag)
        s1 == IF true_start /\ true_type = pred_type
              THEN [st EXCEPT !.correct_chunk = true_type] ELSE st
        s2 == IF true_start
              THEN [s1 EXCEPT !.c.true_chunks = Bump(@, true_type)] ELSE s1
    IN  IF pred_start
        THEN [s2 EXCEPT !.c.pred_chunks = Bump(@, pred_type)] ELSE s2

(* the chunk-start half of one iteration *)
LoopStarts(st, true_tag, pred_tag) ==
    LET true_type == TypeOf(true_tag)
        pred_type == TypeOf(pred_tag)
        true_start == is_chunk_start(st.prev_true_tag, true_tag)
        pred_start == is_chunk_start(st.prev_pred_tag, pred_tag)
        s1 == IF true_start /\ pred_start /\ true_type = pred_type
              THEN [st EXCEPT !.correct_chunk = true_type] ELSE st
        s2 == IF true_start
              THEN [s1 EXCEPT !.c.true_chunks = Bump(@, true_type)] ELSE s1
    IN  IF pred_start
        THEN [s2 EXCEPT !.c.pred_chunks = Bump(@, pred_type)] ELSE s2

(* the per-tag tallies at the top of one iteration *)
LoopTally(st, true_tag, pred_tag) ==
    LET s1 == IF true_tag = pred_tag
              THEN [st EXCEPT !.c.correct_counts = Bump(@, true_tag)] ELSE st
    IN  [s1 EXCEPT !.c.true_counts = Bump(@, true_tag),
                   !.c.pred_counts = Bump(@, pred_tag)]

LoopBody(st, true_tag, pred_tag) ==
    LET s == LoopStarts(LoopEnds(LoopTally(st, true_tag, pred_tag),
                                 true_tag, pred_tag), true_tag, pred_tag)
    IN  [s EXCEPT !.prev_true_tag = true_tag, !.prev_pred_tag = pred_tag]

Min(a, b) == IF a <= b THEN a ELSE b

RECURSIVE Loop(_, _, _, _)
Loop(st, true_seqs, pred_seqs, i) ==
    IF i > Min(Len(true_seqs), Len(pred_seqs)) THEN st
    ELSE Loop(LoopBody(st, true_seqs[i], pred_seqs[i]), true_seqs, pred_seqs, i + 1)

(* no credit for a chunk still open after the last position *)
NoFinalCredit(st) == st

(* the credit for a chunk still open after the last position *)
FinalCredit(st) ==
    IF st.correct_chunk # None
    THEN [st EXCEPT !.c.correct_chunks = Bump(@, st.correct_chunk)]
    ELSE st

(* _count_chunks, with its local variables as they are when it returns *)
count_chunks_locals(true_seqs, pred_seqs) ==
    FinalCredit(Loop(FreshLocals, true_seqs, pred_seqs, 1))

count_chunks(true_seqs, pred_seqs) == count_chunks_locals(true_seqs, pred_seqs).c

(* ---------------------------------------------------------------------- *)
(* Outcomes of calls                                                      *)
(* ---------------------------------------------------------------------- *)
Outcome(state, num, den, value, exc, doc) ==
    [state |-> state, num |-> num, den |-> den, value |-> value,
     exc |-> exc, doc |-> doc]

NotCalled == Outcome("not_called", 0, 1, <<>>, "", <<>>)

ZeroDivision == Outcome("raised", 0, 1, <<>>, "ZeroDivisionError", <<>>)

Returned(x) == Outcome("returned", x.num, x.den, <<>>, "", <<>>)

(* acc = sum_correct_counts / sum_true_counts *)
Accuracy(sum_correct_counts, sum_true_counts) ==
    IF sum_true_counts = 0 THEN ZeroDivision
    ELSE Returned(Rat(sum_correct_counts, sum_true_counts))

(* _get_result: <<acc, acc_non0, f1>>; the unguarded division of acc raises
   out of _get_result, whichever metric the caller wanted *)
get_result(c) ==
    LET sum_correct_chunks == SumValues(c.correct_chunks, TypeList)
        sum_true_chunks == SumValues(c.true_chunks, TypeList)
        sum_pred_chunks == SumValues(c.pred_chunks, TypeList)
        sum_correct_counts == SumValues(c.correct_counts, TagList)
        sum_true_counts == SumValues(c.true_counts, TagList)
        nonO_correct_counts == SumNonO(c.correct_counts, TagList)
        nonO_true_counts == SumNonO(c.true_counts, TagList)
        f1 == calc_metrics(sum_correct_chunks, sum_pred_chunks, sum_true_chunks)[3]
        acc == Accuracy(sum_correct_counts, sum_true_counts)
        acc_non0 == IF nonO_true_counts # 0
                    THEN Rat(nonO_correct_counts, nonO_true_counts) ELSE Zero
    IN  IF acc.state = "raised" THEN <<acc, acc, acc>>
        ELSE <<acc, Returned(acc_non0), Returned(f1)>>

(* one entry point: _count_chunks, then _get_result, then the chosen metric *)
conlleval(e, k) ==
    /\ locals' = count_chunks_locals(golds, preds)
    /\ called' = e
    /\ ret' = get_result(locals'.c)[k]
    /\ UNCHANGED <<golds, preds>>

ConllevalF1 == conlleval("conlleval_f1", 3)

ConllevalAcc == conlleval("conlleval_acc", 1)

ConllevalAccNon0 == conlleval("conlleval_acc_non0", 2)

(* ---------------------------------------------------------------------- *)
(* transformation.py: values, strings, list comprehensions                *)
(* A string is a sequence of one-character strings.                       *)
(* ---------------------------------------------------------------------- *)
PyValue(type, num, den, str) == [type |-> type, num |-> num, den |-> den, str |-> str]

PyNone == PyValue("NoneType", 0, 1, <<>>)

PyInt(n) == PyValue("int", n, 1, <<>>)

PyFloat(x) == PyValue("float", x.num, x.den, <<>>)

PyStr(s) == PyValue("str", 0, 1, s)

PyBool(b) == PyValue("bool", IF b THEN 1 ELSE 0, 1, <<>>)

(* the result of evaluating one element expression of a comprehension *)
Value(v) == [raised |-> FALSE, exc |-> "", doc |-> <<>>, value |-> v]

Raise(exc, doc) == [raised |-> TRUE, exc |-> exc, doc |-> doc, value |-> <<>>]

MinOf(S) == CHOOSE x \in S : \A y \in S : x <= y

MaxOf(S) == CHOOSE x \in S : \A y \in S : x >= y

(* a list comprehension, given the results r of its element expressions in
   order: elements are evaluated left to right, and the first one that raises
   ends the comprehension with its exception *)
ListComp(r) ==
    LET bad == {j \in 1..Len(r) : r[j].raised}
    IN  IF bad = {} THEN Value([j \in 1..Len(r) |-> r[j].value])
        ELSE Raise(r[MinOf(bad)].exc, r[MinOf(bad)].doc)

(* what apply hands back to the pipeline *)
ApplyOutcome(r) ==
    IF r.raised THEN Outcome("raised", 0, 1, <<>>, r.exc, r.doc)
    ELSE Outcome("returned", 0, 1, r.value, "", <<>>)

(* ---------------------------------------------------------------------- *)
(* LowercaseFilter, UppercaseFilter                                       *)
(* ---------------------------------------------------------------------- *)
LowerChar(ch) == IF ch = "A" THEN "a" ELSE IF ch = "B" THEN "b" ELSE ch

UpperChar(ch) == IF ch = "a" THEN "A" ELSE IF ch = "b" THEN "B" ELSE ch

str_lower(s) == [i \in 1..Len(s) |-> LowerChar(s[i])]

str_upper(s) == [i \in 1..Len(s) |-> UpperChar(s[i])]

LowerItem(resp) == Value(PyStr(str_lower(resp)))

UpperItem(resp) == Value(PyStr(str_upper(resp)))

lowercase_filter_set(inst) == ListComp([j \in 1..Len(inst) |-> LowerItem(inst[j])])

uppercase_filter_set(inst) == ListComp([j \in 1..Len(inst) |-> UpperItem(inst[j])])

(* apply that leaves out the empty instances *)
lowercase_apply_nonempty(rs) ==
    LET kept == SelectSeq(rs, LAMBDA inst : Len(inst) > 0)
    IN  ListComp([j \in 1..Len(kept) |-> lowercase_filter_set(kept[j])])

lowercase_apply(rs) == ListComp([j \in 1..Len(rs) |-> lowercase_filter_set(rs[j])])

uppercase_apply(rs) == ListComp([j \in 1..Len(rs) |-> uppercase_filter_set(rs[j])])

(* ---------------------------------------------------------------------- *)
(* MapFilter                                                              *)
(* ---------------------------------------------------------------------- *)
EmptyDict == [k \in {} |-> PyNone]

(* the mapping_dict argument: None, or a dict *)
NoMapping == [given |-> FALSE, dict |-> EmptyDict]

Mapping(d) == [given |-> TRUE, dict |-> d]

NoDtype == "None"

(* MapFilter.__init__ *)
MapFilter(mapping_dict, default_value) ==
    [name |-> "map",
     mapping_dict |-> IF ~mapping_dict.given THEN EmptyDict ELSE mapping_dict.dict,
     default_value |-> default_value,
     dtype |-> NoDtype]

(* a lookup that hands back the key when it is absent *)
dict_get_key(d, key, default) == IF key \in DOMAIN d THEN d[key] ELSE PyStr(key)

(* dict.get(key, default) *)
dict_get(d, key, default) == IF key \in DOMAIN d THEN d[key] ELSE default

MapItem(resp) == Value(dict_get(filter.mapping_dict, resp, filter.default_value))

map_filter_set(inst) == ListComp([j \in 1..Len(inst) |-> MapItem(inst[j])])

map_apply(rs) == ListComp([j \in 1..Len(rs) |-> map_filter_set(rs[j])])

(* ---------------------------------------------------------------------- *)
(* CastToDtypeFilter                                                      *)
(* ---------------------------------------------------------------------- *)
Digits == <<"0", "1", "2", "3", "4", "5", "6", "7", "8", "9">>

IsDigit(ch) == \E d \in 1..10 : Digits[d] = ch

DigitVal(ch) == (CHOOSE d \in 1..10 : Digits[d] = ch) - 1

RECURSIVE DecimalValue(_, _)
DecimalValue(s, n) ==
    IF n = 0 THEN 0 ELSE 10 * DecimalValue(s, n - 1) + DigitVal(s[n])

RECURSIVE Pow10(_)
Pow10(n) == IF n = 0 THEN 1 ELSE 10 * Pow10(n - 1)

AllDigits(s) == \A i \in 1..Len(s) : IsDigit(s[i])

(* int(s) on an unsigned decimal literal; anything else is a ValueError *)
builtin_int(s) ==
    IF Len(s) > 0 /\ AllDigits(s) THEN Value(PyInt(DecimalValue(s, Len(s))))
    ELSE Raise("ValueError", s)

(* float(s) on digits with at most one decimal point and at least one digit *)
builtin_float(s) ==
    LET dots == {i \in 1..Len(s) : s[i] = "."}
    IN  IF Len(s) > 0 /\ AllDigits(s)
        THEN Value(PyFloat(Rat(DecimalValue(s, Len(s)), 1)))
        ELSE IF Cardinality(dots) = 1 /\ Len(s) > 1
        THEN LET d == CHOOSE i \in dots : TRUE
                 digits == SubSeq(s, 1, d - 1) \o SubSeq(s, d + 1, Len(s))
             IN  IF AllDigits(digits)
                 THEN Value(PyFloat(Rat(DecimalValue(digits, Len(digits)),
                                        Pow10(Len(s) - d))))
                 ELSE Raise("ValueError", s)
        ELSE Raise("ValueError", s)

(* getattr(builtins, dtype)(resp) *)
builtin_call(dtype, resp) ==
    IF dtype = "int" THEN builtin_int(resp)
    ELSE IF dtype = "float" THEN builtin_float(resp)
    ELSE IF dtype = "str" THEN Value(PyStr(resp))
    ELSE IF dtype = "bool" THEN Value(PyBool(Len(resp) > 0))
    ELSE Raise("TypeError", resp)  \* bytes(str) without an encoding

(* the type names of the allow-list that the model gives a conversion *)
Dtypes == {"int", "float", "str", "bool", "bytes"}

(* CastToDtypeFilter.__init__, for a dtype of the allow-list *)
CastToDtypeFilter(dtype) ==
    [name |-> "cast_to_dtype", mapping_dict |-> EmptyDict,
     default_value |-> PyNone, dtype |-> dtype]

CastItem(resp) == builtin_call(filter.dtype, resp)

(* a comprehension that leaves out the strings the conversion rejects *)
cast_to_dtype_skipping(inst) ==
    LET ok == SelectSeq(inst, LAMBDA resp : ~CastItem(resp).raised)
    IN  ListComp([j \in 1..Len(ok) |-> CastItem(ok[j])])

cast_to_dtype(inst) == ListComp([j \in 1..Len(inst) |-> CastItem(inst[j])])

cast_apply(rs) == ListComp([j \in 1..Len(rs) |-> cast_to_dtype(rs[j])])

(* ---------------------------------------------------------------------- *)
(* ParseJsonMarkdownFilter                                                *)
(* ---------------------------------------------------------------------- *)
(* the character U+0060, which a TLA+ string cannot spell *)
BACKTICK == "U+0060"

QUOTE == "\""

FENCE == <<BACKTICK, BACKTICK, BACKTICK>>

JSON_TAG == <<"j", "s", "o", "n">>

RECURSIVE lstrip(_)
lstrip(s) == IF Len(s) > 0 /\ s[1] = " " THEN lstrip(Tail(s)) ELSE s

RECURSIVE rstrip(_)
rstrip(s) ==
    IF Len(s) > 0 /\ s[Len(s)] = " " THEN rstrip(SubSeq(s, 1, Len(s) - 1)) ELSE s

(* str.strip() *)
strip(s) == rstrip(lstrip(s))

(* json.loads on the documents the alphabet can spell: surrounding
   whitespace, then one number of decimal digits without a leading zero, or
   one string with no quote inside; anything else is a JSONDecodeError whose
   doc is the whole argument *)
json_loads(doc) ==
    LET body == strip(doc)
        n == Len(body)
    IN  IF n > 0 /\ AllDigits(body) /\ (n = 1 \/ body[1] # "0")
        THEN Value(PyInt(DecimalValue(body, n)))
        ELSE IF n >= 2 /\ body[1] = QUOTE /\ body[n] = QUOTE
                /\ \A i \in 2..(n - 1) : body[i] # QUOTE
        THEN Value(PyStr(SubSeq(body, 2, n - 1)))
        ELSE Raise("JSONDecodeError", doc)

IsAt(s, i, w) == i >= 1 /\ i + Len(w) - 1 <= Len(s) /\ SubSeq(s, i, i + Len(w) - 1) = w

NoMatch == [found |-> FALSE, group2 |-> <<>>]

(* where a non-greedy second group would stop: at the first closing fence *)
LazyEnd(ks) == MinOf(ks)

(* where the greedy second group stops: of the positions ks at which the
   closing fence can match, the last *)
GreedyEnd(ks) == MaxOf(ks)

(* the rest of the pattern, the second group and the closing fence, from
   position q *)
MatchRest(s, q) ==
    LET ks == {k \in q..Len(s) : IsAt(s, k, FENCE)}
    IN  IF ks = {} THEN NoMatch
        ELSE [found |-> TRUE, group2 |-> SubSeq(s, q, GreedyEnd(ks) - 1)]

(* the pattern tried at position i: an opening fence, the optional json
   group (taken when it can be, and given up if the rest then cannot match),
   the second group, the closing fence *)
MatchAt(s, i) ==
    IF ~IsAt(s, i, FENCE) THEN NoMatch
    ELSE IF IsAt(s, i + 3, JSON_TAG) /\ MatchRest(s, i + 7).found
         THEN MatchRest(s, i + 7)
    ELSE MatchRest(s, i + 3)

(* JSON_MARKDOWN_PATTERN.search: the match at the leftmost position *)
JSON_MARKDOWN_PATTERN_search(s) ==
    LET starts == {i \in 1..Len(s) : MatchAt(s, i).found}
    IN  IF starts = {} THEN NoMatch ELSE MatchAt(s, MinOf(starts))

(* the outcome of one _parse_json_markdown call; loads_calls counts the
   json.loads calls made and text is the argument of the last one *)
Parse(r, loads_calls, text) ==
    [raised |-> r.raised, exc |-> r.exc, doc |-> r.doc, value |-> r.value,
     loads_calls |-> loads_calls, text |-> text]

(* an except branch that raises an error of its own *)
NoBlockNewError(e) == Raise("ValueError", <<>>)

(* what the except branch does once the pattern has found no fenced block *)
NoBlock(e) == e

parse_json_markdown(s) ==
    LET e == json_loads(s)
        match == JSON_MARKDOWN_PATTERN_search(s)
        inner == strip(match.group2)
    IN  IF ~e.raised THEN Parse(e, 1, s)
        ELSE IF ~match.found THEN Parse(NoBlock(e), 1, s)
        ELSE Parse(json_loads(inner), 2, inner)

ParseItem(resp) == parse_json_markdown(resp)

parse_json(inst) == ListComp([j \in 1..Len(inst) |-> ParseItem(inst[j])])

parse_json_apply(rs) == ListComp([j \in 1..Len(rs) |-> parse_json(rs[j])])

Simple(name) ==
    [name |-> name, mapping_dict |-> EmptyDict, default_value |-> PyNone,
     dtype |-> NoDtype]

(* LowercaseFilter(), UppercaseFilter(), ParseJsonMarkdownFilter() *)
LowercaseFilter == Simple("lowercase")

UppercaseFilter == Simple("uppercase")

ParseJsonMarkdownFilter == Simple("parse_json_markdown")

(* ---------------------------------------------------------------------- *)
(* Inputs                                                                 *)
(* ---------------------------------------------------------------------- *)
MaxInst == 2

MaxSamp == 2

MaxTokens == 4

MaxMix == 1

SeqsUpTo(S, n) == UNION {[1..m -> S] : m \in 0..n}

(* batches of at most ni instances of at most ns strings of P *)
Batches(P, ni, ns) == SeqsUpTo(SeqsUpTo(P, ns), ni)

CtorArgs(name, mapping_dict, default_value, dtype) ==
    [name |-> name, mapping_dict |-> mapping_dict,
     default_value |-> default_value, dtype |-> dtype]

Construction(args, obj) == [args |-> args, obj |-> obj]

(* {'A': 1, 'B': 2} of the MapFilter docstring, and {'C': 3} *)
MappingArgs ==
    {NoMapping,
     Mapping([k \in {<<"A">>, <<"B">>} |-> IF k = <<"A">> THEN PyInt(1) ELSE PyInt(2)]),
     Mapping([k \in {<<"C">>} |-> PyInt(3)])}

DefaultArgs == {PyNone, PyInt(0)}

(* the filters the registry can build: every class, every modelled argument *)
Constructions ==
    {Construction(CtorArgs("lowercase", NoMapping, PyNone, NoDtype), LowercaseFilter),
     Construction(CtorArgs("uppercase", NoMapping, PyNone, NoDtype), UppercaseFilter),
     Construction(CtorArgs("parse_json_markdown", NoMapping, PyNone, NoDtype),
                  ParseJsonMarkdownFilter)}
    \cup {Construction(CtorArgs("map", m, d, NoDtype), MapFilter(m, d)) :
            m \in MappingArgs, d \in DefaultArgs}
    \cup {Construction(CtorArgs("cast_to_dtype", NoMapping, PyNone, t),
                       CastToDtypeFilter(t)) : t \in Dtypes}

(* the strings a batch for filter f is made of *)
PoolOf(f) ==
    IF f.name \in {"lowercase", "uppercase"} THEN {<<"a", "B">>, <<"A", "1">>}
    ELSE IF f.name = "map" THEN {<<"A">>, <<"C">>}
    ELSE IF f.name = "parse_json_markdown"
         THEN {FENCE \o JSON_TAG \o <<" ", "1", " ">> \o FENCE, <<"x">>}
    ELSE IF f.dtype = "int" THEN {<<"1", "2", "3">>, <<"a", "b", "c">>}
    ELSE IF f.dtype = "float" THEN {<<"3", ".", "5">>, <<"a", "b", "c">>}
    ELSE {<<"1", "2", "3">>, <<>>}

JsonTokens == {FENCE, JSON_TAG, <<BACKTICK>>, <<"1">>, <<" ">>, <<"x">>, <<QUOTE>>}

(* the strings made of at most n tokens *)
RECURSIVE TokenStrings(_)
TokenStrings(n) ==
    IF n = 0 THEN {<<>>}
    ELSE LET shorter == TokenStrings(n - 1)
         IN  shorter \cup {s \o t : s \in shorter, t \in JsonTokens}

NotParsed ==
    [state |-> "not_called", exc |-> "", doc |-> <<>>, value |-> PyNone,
     loads_calls |-> 0, text |-> <<>>]

ParseOutcome(r) ==
    [state |-> IF r.raised THEN "raised" ELSE "returned", exc |-> r.exc,
     doc |-> r.doc, value |-> IF r.raised THEN PyNone ELSE r.value,
     loads_calls |-> r.loads_calls, text |-> r.text]

EntryPoints == {"conlleval_f1", "conlleval_acc", "conlleval_acc_non0"}

Operations == EntryPoints \cup {"apply"}

(* ---------------------------------------------------------------------- *)
(* Initial states                                                         *)
(* ---------------------------------------------------------------------- *)
ScorerStart ==
    /\ locals = NoLocals
    /\ called = "none"
    /\ ret = NotCalled

ScorerItems(n) == \E m \in 0..n : golds \in TagSeqs(m) /\ preds \in TagSeqs(m)

(* gold = ["B-PER", "O"], pred = ["O", "O"] *)
ScorerExample ==
    /\ golds = <<<<"B", "-", "PER">>, OTag>>
    /\ preds = <<OTag, OTag>>

FilterBuilt(ni, ns) ==
    /\ \E k \in Constructions :
          /\ ctor_args = k.args
          /\ filter = k.obj
          /\ resps \in Batches(PoolOf(k.obj), ni, ns)
    /\ out = NotCalled

(* MapFilter({'A': 1, 'B': 2}, default_value=0) and the batch [["A", "C"], []] *)
FilterExample ==
    /\ \E k \in Constructions :
          /\ k.args.name = "map" /\ k.args.default_value = PyInt(0)
          /\ k.args.mapping_dict.given /\ <<"A">> \in DOMAIN k.args.mapping_dict.dict
          /\ ctor_args = k.args
          /\ filter = k.obj
    /\ resps = <<<<<<"A">>, <<"C">>>>, <<>>>>
    /\ out = NotCalled

JsonStart(n) ==
    /\ json_string \in TokenStrings(n)
    /\ parsed = NotParsed

NothingSeen == seen = [op \in Operations |-> NotCalled]

(* ---------------------------------------------------------------------- *)
(* Actions                                                                *)
(* ---------------------------------------------------------------------- *)
Apply(name, r) ==
    /\ filter.name = name
    /\ out' = ApplyOutcome(r)
    /\ UNCHANGED <<ctor_args, filter, resps>>

LowercaseApply == Apply("lowercase", lowercase_apply(resps))

UppercaseApply == Apply("uppercase", uppercase_apply(resps))

MapApply == Apply("map", map_apply(resps))

CastToDtypeApply == Apply("cast_to_dtype", cast_apply(resps))

ParseJsonMarkdownApply == Apply("parse_json_markdown", parse_json_apply(resps))

ParseJsonMarkdown ==
    /\ parsed' = ParseOutcome(parse_json_markdown(json_string))
    /\ UNCHANGED json_string

(* ---------------------------------------------------------------------- *)
(* Specifications                                                         *)
(* ---------------------------------------------------------------------- *)
InitScorer ==
    /\ ScorerItems(MaxLen) /\ ScorerStart
    /\ FilterExample /\ JsonStart(0) /\ NothingSeen

OnlyScorer == UNCHANGED <<filter_vars, json_vars, seen>>

NextScorer ==
    \/ ConllevalF1 /\ OnlyScorer
    \/ ConllevalAcc /\ OnlyScorer
    \/ ConllevalAccNon0 /\ OnlyScorer

SpecScorer == InitScorer /\ [][NextScorer]_vars

InitFilter ==
    /\ FilterBuilt(MaxInst, MaxSamp)
    /\ ScorerExample /\ ScorerStart /\ JsonStart(0) /\ NothingSeen

OnlyFilter == UNCHANGED <<scorer_vars, json_vars, seen>>

NextFilter ==
    \/ LowercaseApply /\ OnlyFilter
    \/ UppercaseApply /\ OnlyFilter
    \/ MapApply /\ OnlyFilter
    \/ CastToDtypeApply /\ OnlyFilter
    \/ ParseJsonMarkdownApply /\ OnlyFilter

SpecFilter == InitFilter /\ [][NextFilter]_vars

InitJson ==
    /\ JsonStart(MaxTokens)
    /\ ScorerExample /\ ScorerStart /\ FilterExample /\ NothingSeen

NextJson ==
    /\ ParseJsonMarkdown
    /\ UNCHANGED <<scorer_vars, filter_vars, seen>>

SpecJson == InitJson /\ [][NextJson]_vars

(* scorer calls and apply calls in any order; seen keeps, per operation, the
   outcome of its latest call *)
Init ==
    /\ \/ ScorerItems(MaxMix) /\ FilterExample
       \/ ScorerExample /\ FilterBuilt(MaxMix, MaxMix)
    /\ ScorerStart /\ JsonStart(0) /\ NothingSeen

Scored(e) ==
    /\ seen' = [seen EXCEPT ![e] = ret']
    /\ UNCHANGED <<filter_vars, json_vars>>

Applied ==
    /\ seen' = [seen EXCEPT !["apply"] = out']
    /\ UNCHANGED <<scorer_vars, json_vars>>

Next ==
    \/ ConllevalF1 /\ Scored("conlleval_f1")
    \/ ConllevalAcc /\ Scored("conlleval_acc")
    \/ ConllevalAccNon0 /\ Scored("conlleval_acc_non0")
    \/ LowercaseApply /\ Applied
    \/ UppercaseApply /\ Applied
    \/ MapApply /\ Applied
    \/ CastToDtypeApply /\ Applied
    \/ ParseJsonMarkdownApply /\ Applied

Spec == Init /\ [][Next]_vars

(* ---------------------------------------------------------------------- *)
(* Properties of the scorer (SpecScorer)                                  *)
(* ---------------------------------------------------------------------- *)
IsZero(o) == o.state = "returned" /\ o.num = 0

(* C1: every entry point returns a number on every pair of equal-length tag
   sequences, the empty pair included, and a metric whose denominator is 0
   (no predicted chunks, no true chunks, no non-O gold tag) is 0 *)
C1_ScorerNeverRaises ==
    called # "none" =>
        /\ ret.state = "returned"
        /\ (called = "conlleval_f1"
              /\ (SumValues(locals.c.pred_chunks, TypeList) = 0
                    \/ SumValues(locals.c.true_chunks, TypeList) = 0)) => IsZero(ret)
        /\ (called = "conlleval_acc_non0"
              /\ SumNonO(locals.c.true_counts, TagList) = 0) => IsZero(ret)

(* the tag at position k, with O before the first and after the last *)
TagAt(seq, k) == IF k \in 1..Len(seq) THEN seq[k] ELSE OTag

StartsAt(seq, i) == is_chunk_start(TagAt(seq, i - 1), TagAt(seq, i))

EndsAfter(seq, j) == is_chunk_end(TagAt(seq, j), TagAt(seq, j + 1))

(* the chunks of a sequence: <<type, first position, last position>> *)
Chunks(seq) ==
    {<<TypeOf(seq[i]), i, j>> : <<i, j>> \in
        {ij \in (1..Len(seq)) \X (1..Len(seq)) :
            /\ ij[1] <= ij[2]
            /\ StartsAt(seq, ij[1])
            /\ EndsAfter(seq, ij[2])
            /\ \A k \in ij[1]..(ij[2] - 1) : ~EndsAfter(seq, k)}}

SharedChunks(T) == {ch \in Chunks(golds) \cap Chunks(preds) : ch[1] = T}

(* C2: when _count_chunks has finished, correct_chunks[T] is the number of
   chunks of type T that the gold and the predicted sequence both have with
   the same first and the same last position; when gold equals predicted,
   correct_chunks, true_chunks and pred_chunks agree for every type *)
C2_CorrectChunksAreSharedSpans ==
    called # "none" =>
        /\ \A T \in Types : locals.c.correct_chunks[T] = Cardinality(SharedChunks(T))
        /\ golds = preds =>
              /\ locals.c.correct_chunks = locals.c.true_chunks
              /\ locals.c.correct_chunks = locals.c.pred_chunks

(* a scored pair that shares one chunk and differs on another *)
C2_Witness ==
    /\ called # "none"
    /\ golds # preds
    /\ \E T \in Types :
          /\ locals.c.correct_chunks[T] >= 1
          /\ locals.c.true_chunks[T] > locals.c.correct_chunks[T]

Metrics(c) ==
    calc_metrics(SumValues(c.correct_chunks, TypeList),
                 SumValues(c.pred_chunks, TypeList),
                 SumValues(c.true_chunks, TypeList))

(* C3: scoring (preds, golds) instead of (golds, preds) leaves correct_chunks
   as it is and exchanges true_chunks and pred_chunks, so precision and
   recall change places and conlleval_f1 returns the same, also when a
   denominator is 0 *)
C3_SwapSymmetry ==
    called # "none" =>
        \A swapped \in {count_chunks(preds, golds)} :
            /\ swapped.correct_chunks = locals.c.correct_chunks
            /\ swapped.true_chunks = locals.c.pred_chunks
            /\ swapped.pred_chunks = locals.c.true_chunks
            /\ Metrics(swapped)[1] = Metrics(locals.c)[2]
            /\ Metrics(swapped)[2] = Metrics(locals.c)[1]
            /\ called = "conlleval_f1" => get_result(swapped)[3] = ret

(* conlleval_f1 has returned for a pair with true chunks, a correct chunk and
   more predicted chunks than true ones: precision and recall differ *)
C3_Witness ==
    /\ called = "conlleval_f1"
    /\ ret.state = "returned"
    /\ SumValues(locals.c.correct_chunks, TypeList) > 0
    /\ SumValues(locals.c.pred_chunks, TypeList) > SumValues(locals.c.true_chunks, TypeList)

IsBIO(seq) == \A i \in 1..Len(seq) : PrefixOf(seq[i]) \in {<<"O">>, <<"B">>, <<"I">>}

(* a BIO parser: B-X opens a span of type X, I-X carries on an open span of
   type X and opens one otherwise, O closes; the count of spans per type *)
RECURSIVE BIOSpans(_, _, _, _)
BIOSpans(seq, i, open, n) ==
    IF i > Len(seq) THEN n
    ELSE IF seq[i] = OTag THEN BIOSpans(seq, i + 1, None, n)
    ELSE IF seq[i][1] = "B" \/ open # seq[i][3]
         THEN BIOSpans(seq, i + 1, seq[i][3], [n EXCEPT ![seq[i][3]] = @ + 1])
    ELSE BIOSpans(seq, i + 1, open, n)

(* C4: the per-type true_chunks that _count_chunks gets from the chunk-start
   test on consecutive gold tags (O before the first) is the number of spans
   of that type a reference BIO parser finds in the gold sequence *)
C4_TrueChunksMatchBIOParser ==
    (called # "none" /\ IsBIO(golds)) =>
        locals.c.true_chunks = BIOSpans(golds, 1, None, [T \in Types |-> 0])

(* a scored BIO gold sequence with a span opened by an I tag after a span of
   another type *)
C4_Witness ==
    /\ called # "none"
    /\ IsBIO(golds)
    /\ \E i \in 2..Len(golds) :
          /\ golds[i] # OTag /\ golds[i - 1] # OTag
          /\ golds[i][1] = "I"
          /\ golds[i][3] # golds[i - 1][3]

(* ---------------------------------------------------------------------- *)
(* Properties of the filters (SpecFilter)                                 *)
(* ---------------------------------------------------------------------- *)
(* what the filter at hand makes of one string *)
ItemOf(resp) ==
    IF filter.name = "lowercase" THEN LowerItem(resp)
    ELSE IF filter.name = "uppercase" THEN UpperItem(resp)
    ELSE IF filter.name = "map" THEN MapItem(resp)
    ELSE IF filter.name = "cast_to_dtype" THEN CastItem(resp)
    ELSE ParseItem(resp)

Positions == {ij \in (1..Len(resps)) \X (1..(MaxSamp + 1)) : ij[2] <= Len(resps[ij[1]])}

(* C5: whenever apply returns, the output has as many instances as the input,
   its i-th instance is as long as the input's i-th instance, and its element
   (i, j) is what the filter makes of input element (i, j) *)
C5_ShapePreserved ==
    out.state = "returned" =>
        /\ Len(out.value) = Len(resps)
        /\ \A i \in 1..Len(resps) : Len(out.value[i]) = Len(resps[i])
        /\ \A ij \in Positions :
              out.value[ij[1]][ij[2]] = ItemOf(resps[ij[1]][ij[2]]).value

(* apply has returned for a batch with an empty and a non-empty instance *)
C5_Witness ==
    /\ out.state = "returned"
    /\ \E i, k \in 1..Len(resps) : Len(resps[i]) = 0 /\ Len(resps[k]) > 0

Unparseable == {ij \in Positions : CastItem(resps[ij[1]][ij[2]]).raised}

(* C8: a CastToDtypeFilter's apply raises the conversion error and returns
   nothing when some string of the batch cannot be converted, and returns the
   converted value of every string when all can *)
C8_CastAllOrNothing ==
    (filter.name = "cast_to_dtype" /\ out.state # "not_called") =>
        /\ Unparseable # {} =>
              /\ out.state = "raised"
              /\ out.exc \in {"ValueError", "TypeError"}
              /\ out.value = <<>>
        /\ Unparseable = {} =>
              /\ out.state = "returned"
              /\ Len(out.value) = Len(resps)
              /\ \A i \in 1..Len(resps) : Len(out.value[i]) = Len(resps[i])
              /\ \A ij \in Positions :
                    out.value[ij[1]][ij[2]] =
                        builtin_call(ctor_args.dtype, resps[ij[1]][ij[2]]).value

(* apply has raised on a batch whose first string converts and whose last
   string does not *)
C8_Witness ==
    /\ filter.name = "cast_to_dtype"
    /\ out.state = "raised"
    /\ Len(resps) = 2 /\ Len(resps[1]) > 0 /\ Len(resps[2]) > 0
    /\ ~CastItem(resps[1][1]).raised
    /\ CastItem(resps[2][Len(resps[2])]).raised

(* C9: a MapFilter built with mapping M and default d maps a string that is a
   key of M to M's value for it and any other string to d; built with no
   mapping, it maps every string to d *)
C9_MapLookup ==
    (filter.name = "map" /\ out.state # "not_called") =>
        /\ out.state = "returned"
        /\ Len(out.value) = Len(resps)
        /\ \A i \in 1..Len(resps) : Len(out.value[i]) = Len(resps[i])
        /\ \A ij \in Positions :
              LET resp == resps[ij[1]][ij[2]]
                  M == ctor_args.mapping_dict
                  d == ctor_args.default_value
              IN  out.value[ij[1]][ij[2]] =
                      IF M.given /\ resp \in DOMAIN M.dict THEN M.dict[resp] ELSE d

(* a MapFilter built with a mapping has mapped a batch holding a key and a
   string that is no key *)
C9_Witness ==
    /\ filter.name = "map"
    /\ ctor_args.mapping_dict.given
    /\ out.state = "returned"
    /\ \E ij, kl \in Positions :
          /\ resps[ij[1]][ij[2]] \in DOMAIN ctor_args.mapping_dict.dict
          /\ resps[kl[1]][kl[2]] \notin DOMAIN ctor_args.mapping_dict.dict

(* ---------------------------------------------------------------------- *)
(* Properties of _parse_json_markdown (SpecJson)                          *)
(* ---------------------------------------------------------------------- *)
FenceStarts(s) == {i \in 1..Len(s) : IsAt(s, i, FENCE)}

(* an opening fence and, after it, a closing fence *)
HasFencedBlock(s) == \E i, k \in FenceStarts(s) : k >= i + 3

DirectParses(s) == ~json_loads(s).raised

(* C6: the direct parse comes first and its result is returned when it
   succeeds; only when it fails is the fenced block looked for, once; with no
   fenced block the error raised is the direct parse's own, so a string with
   no valid JSON and no fence raises *)
C6_DirectThenFencedOnce ==
    parsed.state # "not_called" =>
        /\ DirectParses(json_string) =>
              /\ parsed.state = "returned"
              /\ parsed.value = json_loads(json_string).value
              /\ parsed.loads_calls = 1
        /\ (~DirectParses(json_string) /\ ~HasFencedBlock(json_string)) =>
              /\ parsed.state = "raised"
              /\ parsed.exc = "JSONDecodeError"
              /\ parsed.doc = json_string
              /\ parsed.loads_calls = 1
        /\ (~DirectParses(json_string) /\ HasFencedBlock(json_string)) =>
              parsed.loads_calls = 2

(* a string with one fence and no JSON has been parsed: the direct parse's
   error was raised *)
C6_Witness ==
    /\ parsed.state = "raised"
    /\ parsed.loads_calls = 1
    /\ FenceStarts(json_string) # {}

(* the text between the first opening fence (and the json tag, if one
   follows it) and the last closing fence *)
FirstToLastFence(s) ==
    LET i == MinOf(FenceStarts(s))
        k == MaxOf(FenceStarts(s))
        q == IF IsAt(s, i + 3, JSON_TAG) THEN i + 7 ELSE i + 3
    IN  SubSeq(s, q, k - 1)

(* C7: when the direct parse fails and the string holds an opening and a
   closing fence, what is parsed is the text from the first opening fence
   (after an optional json tag) to the last closing fence, stripped *)
C7_GreedyToLastFence ==
    (parsed.state # "not_called" /\ ~DirectParses(json_string)
        /\ HasFencedBlock(json_string)) =>
        parsed.text = strip(FirstToLastFence(json_string))

(* a string with three fences, one after another, has been parsed: the text
   up to the second fence is not what was parsed *)
C7_Witness ==
    /\ parsed.state # "not_called"
    /\ ~DirectParses(json_string)
    /\ \E i, k, m \in FenceStarts(json_string) :
          /\ k >= i + 3 /\ m >= k + 3
          /\ i = MinOf(FenceStarts(json_string))
          /\ parsed.text # strip(SubSeq(json_string, i + 3, k - 1))

(* ---------------------------------------------------------------------- *)
(* Properties of calls in sequence (Spec)                                 *)
(* ---------------------------------------------------------------------- *)
(* a step leaves the filter's configuration and every call's input alone *)
ConfigurationKept ==
    /\ filter' = filter
    /\ ctor_args' = ctor_args
    /\ resps' = resps
    /\ golds' = golds
    /\ preds' = preds

(* a call of an operation called before has the outcome it had then *)
SameOutcomeAgain ==
    \A op \in Operations : seen[op].state # "not_called" => seen'[op] = seen[op]

(* the counters of a scorer call hold this call's tags and no others *)
CountersOfThisCall ==
    called' # "none" =>
        /\ SumValues(locals'.c.true_counts, TagList) = Len(golds)
        /\ SumValues(locals'.c.pred_counts, TagList) = Len(preds)

(* C10: whatever calls came before, a call changes no filter configuration
   and no input, the scorer's counters start empty, and a call repeated with
   the same arguments has the same outcome *)
C10_NoStateAcrossCalls ==
    [][ConfigurationKept /\ SameOutcomeAgain /\ CountersOfThisCall]_vars

(* every scorer entry point and apply have been called *)
C10_Witness ==
    /\ \A op \in Operations : seen[op].state # "not_called"
    /\ called # "none"

====
